---- MODULE Spec2Model ----
(***************************************************************************)
(* Model of the miner-lottery crate: the Sloth VDF of src/unicorn.rs      *)
(* (eval, verify, xor_for_overflow, is_valid_modulus, construct_unicorn),  *)
(* the selection of src/utils.rs (get_unicorn_prn) and the simplified      *)
(* Fortuna CSPRNG of src/fortuna.rs (new, gen_seed_key, gen_block,         *)
(* get_bytes).                                                             *)
(*                                                                         *)
(* Two specifications share the variables: SpecFortuna drives two Fortuna  *)
(* instances, SpecUnicorn drives one Unicorn value.                        *)
(*                                                                         *)
(* Representation.  A u128 is its to_be_bytes image: a tuple of 16 bytes,  *)
(* most significant first, so that masks, shifts and the wrapping          *)
(* increment keep their 128-bit width.  The AEAD cipher is a free          *)
(* (injective) keyed function: a key is a term, and an output byte is the  *)
(* pair (plaintext block, index) read under the key of the instance that   *)
(* produced it.                                                            *)
(***************************************************************************)
EXTENDS Integers, Sequences, FiniteSets, TLC

VARIABLES
    \* ---- Fortuna (src/fortuna.rs) ----
    fa,        \* instance A: [key, cb, bits_remainder], driven by split requests
    fb,        \* instance B: same user key, driven by the whole request
    userKey,   \* the 32-byte key both instances were built from
    usageA,    \* the usage passed to Fortuna::new for A (u128)
    usageB,    \* the usage passed to Fortuna::new for B (u128)
    phase,     \* "idle" | "first" | "second": where the split/whole round stands
    n1,        \* length of A's first request of the round
    n2,        \* length of A's second request of the round
    outA,      \* bytes A returned in the round (both calls, concatenated)
    outB,      \* bytes B returned in the round
    pos,       \* stream offset (bytes returned by B) at the start of the round
    call,      \* the last get_bytes call: who, len, ret, cb/remainder before, cb after
    \* ---- Unicorn (src/unicorn.rs, src/utils.rs) ----
    unicorn,   \* [modulus, iterations, security_level, seed]
    build,     \* "debug" | "release": whether integer overflow panics or wraps
    info,      \* result of construct_unicorn: NotCalled | Panic | UnicornInfo
    ret        \* the last Unicorn call and what it returned

fortunaVars == <<fa, fb, userKey, usageA, usageB, phase, n1, n2, outA, outB, pos, call>>
unicornVars == <<unicorn, build, info, ret>>
vars == <<fortunaVars, unicornVars>>

(***************************************************************************)
(* Bounds of the model.                                                    *)
(***************************************************************************)
\* Largest length of one of A's two requests; B asks for up to twice that.
MaxLen == 8
\* get_bytes is not called once an instance has generated this many blocks.
MaxBlocks == 3
\* Moduli are 0..MaxModulus.
MaxModulus == 7
\* Iteration counts are 0..MaxIterations.
MaxIterations == 2
\* Security levels are 0..MaxLevel, and 32.
MaxLevel == 1
\* Seeds are 0..MaxSeed.
MaxSeed == 8

(***************************************************************************)
(* Program constants.                                                      *)
(***************************************************************************)
\* Bytes of a u128 (u128::to_be_bytes).
U128_BYTES == 16
\* Bytes of one generated block ([u8; 16] of gen_block).
BLOCK_LEN == 16
KEY_LEN == 32
USAGE_MAX_BITS == 96
\* The shift of the usage: u128::pow(2, 32).
USAGE_SHIFT_BITS == 32
BYTE_BITS == 8
\* Bits of the u64 of `2u64.pow`.
U64_BITS == 64
BYTE_MAX == 255

Min(a, b) == IF a < b THEN a ELSE b

(***************************************************************************)
(* u128 arithmetic on the big-endian byte image.                           *)
(***************************************************************************)
U128Zero == [i \in 1..U128_BYTES |-> 0]

\* u128::wrapping_add(x, 1): increment with carry from the last byte; the carry
\* out of the first byte is dropped (wrap at 2^128).
RECURSIVE IncFrom(_, _)
IncFrom(x, i) ==
    IF i = 0 THEN x
    ELSE IF x[i] = BYTE_MAX THEN IncFrom([x EXCEPT ![i] = 0], i - 1)
    ELSE [x EXCEPT ![i] = x[i] + 1]

wrapping_add_1(x) == IncFrom(x, U128_BYTES)

\* The mask taken as a cast to u64: only the low 8 bytes are kept.
mask_usage_u64(usage) ==
    [i \in 1..U128_BYTES |-> IF i <= U128_BYTES \div 2 THEN 0 ELSE usage[i]]

\* usage & ((1u128 << USAGE_MAX_BITS) - 1): the bytes above bit 96 are cleared.
mask_usage(usage) ==
    [i \in 1..U128_BYTES |->
        IF i <= U128_BYTES - (USAGE_MAX_BITS \div BYTE_BITS) THEN 0 ELSE usage[i]]

\* u128::pow(2, 32) * x: a left shift by 4 bytes.  The product cannot overflow
\* for x < 2^96; the bytes shifted out are the ones mask_usage cleared.
mul_pow2_32(x) ==
    [i \in 1..U128_BYTES |->
        IF i + (USAGE_SHIFT_BITS \div BYTE_BITS) <= U128_BYTES
        THEN x[i + (USAGE_SHIFT_BITS \div BYTE_BITS)] ELSE 0]

(***************************************************************************)
(* The cipher: Aes256GcmSiv::new(key) and encrypt_in_place_detached under  *)
(* the zero nonce with no additional data, the tag discarded.  A 16-byte   *)
(* plaintext always encrypts (no AEAD error).                              *)
(***************************************************************************)
\* The ciphertext block of plaintext pt under key, as a term.
encrypt(key, pt) == <<key, pt>>

\* Byte idx of the ciphertext of plaintext b.ctr under key.
Ciphertext(key, b) == <<encrypt(key, b.ctr), b.idx>>

\* The bytes ret, returned by an instance whose cipher key is key.
StreamOf(key, bytes) == [i \in DOMAIN bytes |-> Ciphertext(key, bytes[i])]

\* The two plaintexts of the key derivation: cb1 and cb2 before encryption.
seed_plaintexts(usage) ==
    LET cb == mul_pow2_32(mask_usage(usage))
    IN  <<cb, wrapping_add_1(cb)>>

\* Fortuna::gen_seed_key: the derived key is the concatenation of the two
\* ciphertexts under the user's key.
gen_seed_key(key, usage) ==
    LET p == seed_plaintexts(usage)
    IN  <<encrypt(key, p[1]), encrypt(key, p[2])>>

\* Fortuna::new
Fortuna_new(key, usage) ==
    [key |-> gen_seed_key(key, usage), cb |-> U128Zero, bits_remainder |-> <<>>]

\* Fortuna::gen_block without the increment of the counter.
gen_block_no_increment(f) ==
    [block |-> [j \in 1..BLOCK_LEN |-> [ctr |-> f.cb, idx |-> j]],
     f     |-> f]

\* Fortuna::gen_block: encrypt to_be_bytes(cb), then cb = cb.wrapping_add(1).
gen_block(f) ==
    [block |-> [j \in 1..BLOCK_LEN |-> [ctr |-> f.cb, idx |-> j]],
     f     |-> [f EXCEPT !.cb = wrapping_add_1(f.cb)]]

\* The loop `while len >= 16` of get_bytes.
RECURSIVE whole_blocks(_, _, _)
whole_blocks(f, len, result) ==
    IF len >= BLOCK_LEN
    THEN LET g == gen_block(f)
         IN  whole_blocks(g.f, len - BLOCK_LEN, result \o g.block)
    ELSE [f |-> f, len |-> len, result |-> result]

\* The tail `if len > 0` of get_bytes.
tail_block(s) ==
    IF s.len > 0
    THEN LET g == gen_block(s.f)
         IN  [f   |-> [g.f EXCEPT !.bits_remainder =
                          @ \o SubSeq(g.block, s.len + 1, BLOCK_LEN)],
              out |-> s.result \o SubSeq(g.block, 1, s.len)]
    ELSE [f |-> s.f, out |-> s.result]

\* get_bytes that forgets the unused bytes of the last block.
get_bytes_drop_tail(f, len) ==
    LET range == Min(len, Len(f.bits_remainder))
        f1    == [f EXCEPT !.bits_remainder = SubSeq(@, range + 1, Len(@))]
        s     == whole_blocks(f1, len - range, SubSeq(f.bits_remainder, 1, range))
    IN  IF s.len > 0
        THEN LET g == gen_block(s.f)
             IN  [f |-> g.f, out |-> s.result \o SubSeq(g.block, 1, s.len)]
        ELSE [f |-> s.f, out |-> s.result]

\* get_bytes that does not take the drained bytes off len.
get_bytes_keep_len(f, len) ==
    LET range == Min(len, Len(f.bits_remainder))
        f1    == [f EXCEPT !.bits_remainder = SubSeq(@, range + 1, Len(@))]
    IN  tail_block(whole_blocks(f1, len, SubSeq(f.bits_remainder, 1, range)))

\* Fortuna::get_bytes: [f |-> the instance after the call, out |-> the bytes].
get_bytes(f, len) ==
    LET range == Min(len, Len(f.bits_remainder))
        f1    == [f EXCEPT !.bits_remainder = SubSeq(@, range + 1, Len(@))]
    IN  tail_block(whole_blocks(f1, len - range, SubSeq(f.bits_remainder, 1, range)))

(***************************************************************************)
(* Inputs of the Fortuna specification.                                    *)
(***************************************************************************)
\* The keys of the tests: [b; 32].
KeyOf(b) == [i \in 1..KEY_LEN |-> b]
Keys == {KeyOf(0), KeyOf(1)}

\* The u128 hi * 2^96 + mid * 2^88 + lo: hi lies above the 96 bits the usage is
\* limited to, mid is the highest byte below them, lo is the lowest byte.
UsageOf(hi, mid, lo) ==
    [i \in 1..U128_BYTES |->
        IF i = 4 THEN hi ELSE IF i = 5 THEN mid ELSE IF i = U128_BYTES THEN lo ELSE 0]
Usages == {UsageOf(0, 0, 0), UsageOf(0, 0, 1), UsageOf(0, 1, 0), UsageOf(1, 0, 0)}

NoCall == [who |-> "none"]

\* Blocks an instance has generated; within MaxBlocks the counter fits its last byte.
BlocksGenerated(f) == f.cb[U128_BYTES]

CallRecord(who, f, len, r) ==
    [who |-> who, len |-> len, ret |-> r.out,
     cbBefore |-> f.cb, remBefore |-> Len(f.bits_remainder), cbAfter |-> r.f.cb]

(***************************************************************************)
(* The Fortuna specification: two instances are built from one key, A with *)
(* usageA and B with usageB.  A round asks A for n1 bytes, then A for n2   *)
(* bytes, then B for n1 + n2 bytes; every action is one get_bytes call.    *)
(***************************************************************************)
InitFortunaPart ==
    \E k \in Keys, ua \in Usages, ub \in Usages :
        /\ userKey = k
        /\ usageA = ua
        /\ usageB = ub
        /\ fa = Fortuna_new(k, ua)
        /\ fb = Fortuna_new(k, ub)
        /\ phase = "idle"
        /\ n1 = 0
        /\ n2 = 0
        /\ outA = <<>>
        /\ outB = <<>>
        /\ pos = 0
        /\ call = NoCall

\* A.get_bytes(len), the first request of a round.
SplitFirst(len) ==
    /\ phase = "idle"
    /\ BlocksGenerated(fb) < MaxBlocks
    /\ LET r == get_bytes(fa, len)
       IN  /\ fa' = r.f
           /\ outA' = r.out
           /\ call' = CallRecord("A", fa, len, r)
    /\ n1' = len
    /\ n2' = 0
    /\ outB' = <<>>
    /\ pos' = pos + Len(outB)
    /\ phase' = "first"
    /\ UNCHANGED <<fb, userKey, usageA, usageB, unicornVars>>

\* A.get_bytes(len), the second request of a round.
SplitSecond(len) ==
    /\ phase = "first"
    /\ LET r == get_bytes(fa, len)
       IN  /\ fa' = r.f
           /\ outA' = outA \o r.out
           /\ call' = CallRecord("A", fa, len, r)
    /\ n2' = len
    /\ phase' = "second"
    /\ UNCHANGED <<fb, userKey, usageA, usageB, n1, outB, pos, unicornVars>>

\* B.get_bytes(n1 + n2), the whole request of a round.
Whole ==
    /\ phase = "second"
    /\ LET r == get_bytes(fb, n1 + n2)
       IN  /\ fb' = r.f
           /\ outB' = r.out
           /\ call' = CallRecord("B", fb, n1 + n2, r)
    /\ phase' = "idle"
    /\ UNCHANGED <<fa, userKey, usageA, usageB, n1, n2, outA, pos, unicornVars>>

NextFortuna ==
    \/ \E len \in 0..MaxLen : SplitFirst(len)
    \/ \E len \in 0..MaxLen : SplitSecond(len)
    \/ Whole

(***************************************************************************)
(* The Sloth VDF (src/unicorn.rs).  Integers are rug's arbitrary-precision *)
(* Integer; the moduli, seeds and witnesses of the model are small.        *)
(* A call returns a record: kind "ok" with its value, "none" (Option::None),*)
(* "panic", or "diverges" (a loop that never ends).                        *)
(***************************************************************************)
Ok(v) == [kind |-> "ok", val |-> v]
NoneResult == [kind |-> "none"]
PanicResult == [kind |-> "panic"]
DivergesResult == [kind |-> "diverges"]

\* Integer::is_probably_prime(MR_PRIME_ITERS) is not IsPrime::No.  On the small
\* moduli of the model GMP's verdict is exact: No for 0, 1 and the composites.
not_composite(n) == n >= 2 /\ \A d \in 2..(n - 1) : n % d # 0

\* m >= 2^e over the integers (2^e > e, so only e < m needs the power).
GePow2(m, e) == IF e >= m THEN FALSE ELSE m >= 2 ^ e

\* Unicorn::is_valid_modulus: modulus >= 2u64.pow(2 * security_level) and the
\* primality test does not say No.  2u64.pow(e) overflows for e >= 64: the debug
\* build panics, the release build wraps to 0.
is_valid_modulus(u, b) ==
    LET e == 2 * u.security_level
    IN  IF e >= U64_BITS
        THEN IF b = "debug" THEN PanicResult
             ELSE Ok(u.modulus >= 0 /\ not_composite(u.modulus))
        ELSE Ok(GePow2(u.modulus, e) /\ not_composite(u.modulus))

\* *w ^= 1 on a two's-complement integer.
xor_1(w) == IF w % 2 = 0 THEN w + 1 ELSE w - 1

\* The loop `while *w >= self.modulus || *w == 0 { *w ^= 1 }`: it ends at the
\* first value that passes, and runs forever once a value comes back.
RECURSIVE xor_loop(_, _, _)
xor_loop(w, modulus, seen) ==
    IF w >= modulus \/ w = 0
    THEN IF w \in seen THEN DivergesResult
         ELSE xor_loop(xor_1(w), modulus, seen \cup {w})
    ELSE Ok(w)

\* xor_for_overflow with a single xor and no loop.
xor_for_overflow_once(w, modulus) == Ok(xor_1(w))

\* Unicorn::xor_for_overflow
xor_for_overflow(w, modulus) == xor_loop(xor_1(w), modulus, {})

\* Integer::pow_mod_mut for exponent >= 0 and modulus > 0.
RECURSIVE pow_mod(_, _, _)
pow_mod(base, exponent, modulus) ==
    IF exponent = 0 THEN 1 % modulus
    ELSE (base * pow_mod(base, exponent - 1, modulus)) % modulus

\* The loop of eval: l times xor_for_overflow, then w^((p+1)/4) mod p.
RECURSIVE eval_loop(_, _, _)
eval_loop(w, modulus, l) ==
    IF l = 0 THEN Ok(w)
    ELSE LET x == xor_for_overflow(w, modulus)
         IN  IF x.kind # "ok" THEN x
             ELSE eval_loop(pow_mod(x.val, (modulus + 1) \div 4, modulus), modulus, l - 1)

\* Integer::to_digits::<u8>(Order::MsfBe): the shortest big-endian bytes; none for 0.
RECURSIVE to_digits(_)
to_digits(w) ==
    IF w = 0 THEN <<>> ELSE to_digits(w \div (BYTE_MAX + 1)) \o <<w % (BYTE_MAX + 1)>>

\* The ASCII code of a lowercase hex digit.
hex_char(n) == IF n < 10 THEN 48 + n ELSE 87 + n

\* hex::encode, as the bytes of the string (String::as_bytes).
hex_encode(bytes) ==
    [i \in 1..(2 * Len(bytes)) |->
        IF i % 2 = 1 THEN hex_char(bytes[(i + 1) \div 2] \div 16)
        ELSE hex_char(bytes[i \div 2] % 16)]

\* Unicorn::eval: none on an invalid modulus, else the pair (witness, g).
eval(u, b) ==
    LET valid == is_valid_modulus(u, b)
    IN  IF valid.kind # "ok" THEN valid
        ELSE IF ~valid.val THEN NoneResult
        ELSE LET w == eval_loop(u.seed % u.modulus, u.modulus, u.iterations)
             IN  IF w.kind # "ok" THEN w
                 ELSE Ok([witness |-> w.val, g |-> hex_encode(to_digits(w.val))])

\* The loop of verify: l times w^2 mod p, negate mod p, xor_for_overflow.
RECURSIVE verify_loop(_, _, _)
verify_loop(w, modulus, l) ==
    IF l = 0 THEN Ok(w)
    ELSE LET x == xor_for_overflow((0 - ((w * w) % modulus)) % modulus, modulus)
         IN  IF x.kind # "ok" THEN x ELSE verify_loop(x.val, modulus, l - 1)

\* Unicorn::verify.  pow_mod_mut and div_rem_floor panic on a zero modulus.
verify(u, seed, witness) ==
    IF u.modulus = 0 THEN PanicResult
    ELSE LET w == verify_loop(witness, u.modulus, u.iterations)
         IN  IF w.kind # "ok" THEN w ELSE Ok(w.val = seed % u.modulus)

\* construct_unicorn: panics when eval returns None.
construct_unicorn(u, b) ==
    LET e == eval(u, b)
    IN  IF e.kind # "ok" THEN PanicResult
        ELSE Ok([unicorn |-> u, witness |-> e.val.witness, g_value |-> e.val.g])

\* unicorn_selection::get_unicorn_prn: the slice [..32] panics on a shorter
\* g_value; otherwise the 8 bytes drawn, which from_be_bytes reads as a u64.
get_unicorn_prn(i, usage_number) ==
    IF Len(i.g_value) < KEY_LEN THEN PanicResult
    ELSE LET csprng == Fortuna_new(SubSeq(i.g_value, 1, KEY_LEN), usage_number)
         IN  Ok(StreamOf(csprng.key, get_bytes(csprng, 8).out))

(***************************************************************************)
(* Inputs of the Unicorn specification.                                    *)
(***************************************************************************)
Moduli == 0..MaxModulus
Iterations == 0..MaxIterations
\* The small levels, and the first level whose 2^(2k) does not fit a u64.
Levels == (0..MaxLevel) \cup {U64_BITS \div 2}
Seeds == 0..MaxSeed
\* The witnesses handed to verify: below the modulus, and one modulus above.
Witnesses(modulus) == 0..(2 * modulus + 1)
\* The seeds handed to verify: the Unicorn's own, and a different one.
VerifySeeds(u) == {u.seed, u.seed + 1}
Builds == {"debug", "release"}

NoRet == [op |-> "none"]
NotConstructed == [kind |-> "not_called"]

\* Unicorn::default()
DefaultUnicorn == [modulus |-> 0, iterations |-> 0, security_level |-> 0, seed |-> 0]

InitUnicornPart ==
    /\ unicorn \in [modulus : Moduli, iterations : Iterations,
                    security_level : Levels, seed : Seeds]
    /\ build \in Builds
    /\ info = NotConstructed
    /\ ret = NoRet

\* unicorn.eval()
Eval ==
    /\ ret' = [op |-> "eval", result |-> eval(unicorn, build)]
    /\ UNCHANGED <<unicorn, build, info, fortunaVars>>

\* unicorn.verify(seed, witness)
Verify(seed, witness) ==
    /\ ret' = [op |-> "verify", seed |-> seed, witness |-> witness,
               result |-> verify(unicorn, seed, witness)]
    /\ UNCHANGED <<unicorn, build, info, fortunaVars>>

\* unicorn.xor_for_overflow(&mut w), on a value of [0, modulus) as eval and
\* verify pass it.
XorForOverflow(w) ==
    /\ ret' = [op |-> "xor_for_overflow", w |-> w,
               result |-> xor_for_overflow(w, unicorn.modulus)]
    /\ UNCHANGED <<unicorn, build, info, fortunaVars>>

\* construct_unicorn(seed, fixed_params)
ConstructUnicorn ==
    /\ info.kind = "not_called"
    /\ info' = construct_unicorn(unicorn, build)
    /\ ret' = [op |-> "construct_unicorn"]
    /\ UNCHANGED <<unicorn, build, fortunaVars>>

\* get_unicorn_prn(&info, usage_number)
GetUnicornPrn(usage_number) ==
    /\ info.kind = "ok"
    /\ ret' = [op |-> "get_unicorn_prn", usage |-> usage_number,
               result |-> get_unicorn_prn(info.val, usage_number)]
    /\ UNCHANGED <<unicorn, build, info, fortunaVars>>

NextUnicorn ==
    \/ Eval
    \/ \E seed \in VerifySeeds(unicorn), witness \in Witnesses(unicorn.modulus) :
          Verify(seed, witness)
    \/ \E w \in 0..(unicorn.modulus - 1) : XorForOverflow(w)
    \/ ConstructUnicorn
    \/ \E usage_number \in Usages : GetUnicornPrn(usage_number)

(***************************************************************************)
(* The specifications.                                                     *)
(***************************************************************************)
\* The Fortuna instances, with the Unicorn left as Unicorn::default().
InitFortuna ==
    /\ InitFortunaPart
    /\ unicorn = DefaultUnicorn
    /\ build = "release"
    /\ info = NotConstructed
    /\ ret = NoRet

SpecFortuna == InitFortuna /\ [][NextFortuna]_vars

\* The Unicorn, with two fresh Fortuna instances left alone.
InitUnicorn ==
    /\ InitUnicornPart
    /\ userKey = KeyOf(0)
    /\ usageA = UsageOf(0, 0, 0)
    /\ usageB = UsageOf(0, 0, 0)
    /\ fa = Fortuna_new(userKey, usageA)
    /\ fb = Fortuna_new(userKey, usageB)
    /\ phase = "idle"
    /\ n1 = 0
    /\ n2 = 0
    /\ outA = <<>>
    /\ outB = <<>>
    /\ pos = 0
    /\ call = NoCall

SpecUnicorn == InitUnicorn /\ [][NextUnicorn]_vars

Init == InitFortunaPart /\ InitUnicornPart
Next == NextFortuna \/ NextUnicorn
Spec == Init /\ [][Next]_vars

(***************************************************************************)
(* Vocabulary of the properties.                                           *)
(***************************************************************************)
Prime(n) == n >= 2 /\ \A d \in 2..(n - 1) : n % d # 0

\* A Unicorn the Sloth VDF is defined for: p prime, p = 3 mod 4, p >= 2^(2k).
SlothUnicorn(u) ==
    /\ Prime(u.modulus)
    /\ u.modulus % 4 = 3
    /\ GePow2(u.modulus, 2 * u.security_level)

\* The low 96 bits of a u128.
Low96(x) == [i \in 5..U128_BYTES |-> x[i]]

\* a <= b on u128 values.
U128Le(a, b) ==
    \/ a = b
    \/ \E i \in 1..U128_BYTES : a[i] < b[i] /\ \A j \in 1..(i - 1) : a[j] = b[j]

\* x + k modulo 2^128.
RECURSIVE AddBlocks(_, _)
AddBlocks(x, k) == IF k = 0 THEN x ELSE AddBlocks(wrapping_add_1(x), k - 1)

\* Adding k to x passes 2^128.
Wraps(x, k) == \E j \in 1..k : AddBlocks(x, j) = U128Zero

\* Blocks a request of len bytes needs beyond a remainder of rem bytes.
BlocksNeeded(len, rem) ==
    IF len <= rem THEN 0 ELSE (len - rem + BLOCK_LEN - 1) \div BLOCK_LEN

\* The first bytes (at most 16) of the two streams, read once both instances
\* have answered the first round.
FirstRound == phase = "idle" /\ pos = 0 /\ Len(outB) > 0
FirstBytesA == SubSeq(StreamOf(fa.key, outA), 1, Min(BLOCK_LEN, Len(outA)))
FirstBytesB == SubSeq(StreamOf(fb.key, outB), 1, Min(BLOCK_LEN, Len(outB)))

SeparatedStreams ==
    /\ seed_plaintexts(usageA) # seed_plaintexts(usageB)
    /\ fa.key # fb.key
    /\ FirstRound => FirstBytesA # FirstBytesB

(***************************************************************************)
(* Properties of Fortuna, checked under SpecFortuna.                       *)
(***************************************************************************)
\* C3: two instances built from the same key and usage and driven through the
\* same requests so far return, for get_bytes(n1) then get_bytes(n2) on one and
\* get_bytes(n1 + n2) on the other, the same bytes, and end in the same state
\* (key, cb, remainder).
C3_SplitEquivalence ==
    (usageA = usageB /\ phase = "idle") =>
        /\ StreamOf(fa.key, outA) = StreamOf(fb.key, outB)
        /\ Len(outA) = n1 + n2
        /\ fa = fb

\* A round whose first request is served from the remainder and whose second
\* crosses into a new block.
C3_Witness ==
    /\ usageA = usageB
    /\ phase = "idle"
    /\ call.who = "B"
    /\ 0 < n1
    /\ n1 < call.remBefore
    /\ n1 + n2 > call.remBefore
    /\ outA = outB
    /\ Len(outB) = n1 + n2

\* C4: every get_bytes(len) returns exactly len bytes, and the remainder of
\* each instance holds at most 15 bytes.
C4_GetBytesPostcondition ==
    /\ call.who # "none" => Len(call.ret) = call.len
    /\ Len(fa.bits_remainder) < BLOCK_LEN
    /\ Len(fb.bits_remainder) < BLOCK_LEN

\* A call for fewer bytes than the remainder holds.
C4_Witness ==
    /\ call.who # "none"
    /\ 0 < call.len
    /\ call.len < call.remBefore
    /\ Len(call.ret) = call.len

\* C7 as stated: any two different usage values give different key-derivation
\* plaintexts, different derived keys and streams that differ in their first
\* 16 bytes.
C7_AnyUsageSeparates == usageA # usageB => SeparatedStreams

\* C7 as amended: usage values that differ in their low 96 bits give different
\* plaintexts, derived keys and first bytes; usage values that agree in their
\* low 96 bits give the same plaintexts and the same derived key.
C7_Low96UsageSeparates ==
    /\ Low96(usageA) # Low96(usageB) => SeparatedStreams
    /\ Low96(usageA) = Low96(usageB) =>
          /\ seed_plaintexts(usageA) = seed_plaintexts(usageB)
          /\ fa.key = fb.key

\* Two usages that differ below bit 96, after both streams gave 16 bytes.
C7_Witness ==
    /\ Low96(usageA) # Low96(usageB)
    /\ FirstRound
    /\ Len(outA) = BLOCK_LEN
    /\ Len(outB) = BLOCK_LEN
    /\ FirstBytesA # FirstBytesB

\* C8 as stated: every get_bytes call that returns at least one byte advances
\* the counter cb.
C8_EveryCallAdvances ==
    (call.who # "none" /\ Len(call.ret) >= 1) => call.cbAfter # call.cbBefore

\* C8 as amended: a call advances cb by the number of blocks it needs beyond
\* the remainder, ceil((len - remainder) / 16) modulo 2^128; cb changes exactly
\* when len exceeds the remainder, and never moves backwards short of the wrap.
C8_CounterAdvance ==
    call.who # "none" =>
        LET k == BlocksNeeded(call.len, call.remBefore)
        IN  /\ call.cbAfter = AddBlocks(call.cbBefore, k)
            /\ (call.cbAfter # call.cbBefore) <=> (call.len > call.remBefore)
            /\ Wraps(call.cbBefore, k) \/ U128Le(call.cbBefore, call.cbAfter)

\* The second of two get_bytes(1) on a fresh instance: a byte is returned and
\* cb stays at 1.
C8_Witness ==
    /\ pos = 0
    /\ phase = "second"
    /\ n1 = 1
    /\ n2 = 1
    /\ Len(call.ret) = 1
    /\ call.remBefore = BLOCK_LEN - 1
    /\ call.cbBefore = wrapping_add_1(U128Zero)
    /\ call.cbAfter = call.cbBefore

(***************************************************************************)
(* Properties of the Unicorn, checked under SpecUnicorn.                   *)
(***************************************************************************)
\* C1: for a prime p = 3 mod 4 with p >= 2^(2k), any l and any seed s, if eval
\* returns (w, g) then verify(s, w) returns true.
C1_MutualInverse ==
    (/\ ret.op = "verify"
     /\ SlothUnicorn(unicorn)
     /\ ret.seed = unicorn.seed
     /\ eval(unicorn, build).kind = "ok"
     /\ ret.witness = eval(unicorn, build).val.witness)
        => ret.result = Ok(TRUE)

\* C2: for a valid Unicorn and any witness w other than eval's, verify(s, w)
\* returns false.
C2_WitnessUnique ==
    (/\ ret.op = "verify"
     /\ SlothUnicorn(unicorn)
     /\ ret.seed = unicorn.seed
     /\ eval(unicorn, build).kind = "ok"
     /\ ret.witness # eval(unicorn, build).val.witness)
        => ret.result = Ok(FALSE)

\* C5: eval never panics, and returns none exactly when the modulus is not
\* valid, that is unless p >= 2^(2k) and p is prime.
C5_EvalNoneIffInvalid ==
    ret.op = "eval" =>
        /\ ret.result.kind \in {"ok", "none"}
        /\ (ret.result.kind = "none") <=>
              ~(GePow2(unicorn.modulus, 2 * unicorn.security_level)
                  /\ Prime(unicorn.modulus))

\* C6: verify ends and returns a boolean for every Unicorn, seed and witness.
C6_VerifyTotal == ret.op = "verify" => ret.result.kind = "ok"

\* C9 as stated: for a prime p >= 3 and 0 <= w < p, xor_for_overflow ends with
\* 1 <= x < p, and xor_for_overflow of x is w.
C9_XorInvolution ==
    (ret.op = "xor_for_overflow" /\ Prime(unicorn.modulus) /\ unicorn.modulus >= 3) =>
        /\ ret.result.kind = "ok"
        /\ ret.result.val \in 1..(unicorn.modulus - 1)
        /\ xor_for_overflow(ret.result.val, unicorn.modulus) = Ok(ret.w)

\* C9 as amended: for a prime p >= 3 and 0 <= w < p, xor_for_overflow ends with
\* 1 <= x < p; for 1 <= w < p, xor_for_overflow of x is w; 0 goes to 1, which
\* goes to itself.
C9_XorInvolutionNonZero ==
    (ret.op = "xor_for_overflow" /\ Prime(unicorn.modulus) /\ unicorn.modulus >= 3) =>
        /\ ret.result.kind = "ok"
        /\ ret.result.val \in 1..(unicorn.modulus - 1)
        /\ ret.w >= 1 => xor_for_overflow(ret.result.val, unicorn.modulus) = Ok(ret.w)
        /\ ret.w = 0 =>
              /\ ret.result = Ok(1)
              /\ xor_for_overflow(1, unicorn.modulus) = Ok(1)

\* The call on p - 1, where the first xor gives p and the loop xors again.
C9_Witness ==
    /\ ret.op = "xor_for_overflow"
    /\ Prime(unicorn.modulus)
    /\ unicorn.modulus >= 3
    /\ ret.w = unicorn.modulus - 1
    /\ xor_1(ret.w) = unicorn.modulus
    /\ ret.result = Ok(ret.w)

\* C10: get_unicorn_prn returns a value for every UnicornInfo construct_unicorn
\* returns.
C10_SelectionTotal == ret.op = "get_unicorn_prn" => ret.result.kind = "ok"

====
